---------------------------- MODULE Spec2Model ----------------------------
(***************************************************************************)
(* State-machine model of dionaea's SIP honeypot service                   *)
(* (modules/python/scripts/sip/__init__.py): the SipServer datagram        *)
(* router, the per-peer SipSession, the per-Call-ID SipCall state machine  *)
(* driven by its "invite_handler" timer, the RtpUdpStream media relay and  *)
(* the REGISTER digest challenge.                                          *)
(*                                                                         *)
(* Python objects are kept in append-only heaps (sessions, calls, rtps);   *)
(* a reference is an index into its heap, 0 is None for a relay reference. *)
(* Every action is one run-to-completion callback of the libev reactor: a  *)
(* datagram on the shared socket, a call's invite_handler timer, or a      *)
(* session's sustain timer.  Handlers are operators from a world record    *)
(* to a world record so that a handler's calls compose in source order.    *)
(***************************************************************************)
EXTENDS Integers, Sequences, FiniteSets, TLC

VARIABLES
    router,     \* SipServer._sessions : sessionkey -> index into sessions
    sessions,   \* heap of SipSession objects
    calls,      \* heap of SipCall objects
    rtps,       \* heap of RtpUdpStream objects
    reg_users,  \* reg_manager._users : user id -> sequence of User records
    outbox,     \* server.send() calls made by the last callback: <<remote, payload>>
    exc,        \* exception that escaped the last callback, "none" if it returned
    effects     \* what SipCall.close did in the last callback, in program order

vars == <<router, sessions, calls, rtps, reg_users, outbox, exc, effects>>

---------------------------------------------------------------------------
(* Bounds of the exploration *)

\* datagrams the server receives in one behaviour
MaxDatagrams == 3

---------------------------------------------------------------------------
(* Environment: peers, identities, messages *)

LocalHost == "192.0.2.1"
PeerA == <<LocalHost, "p5060", "198.51.100.7", "p40000">>
PeerB == <<LocalHost, "p5060", "198.51.100.9", "p40000">>
Peers == {PeerA, PeerB}

CallIds == {"c1", "c2"}
CSeqs == {1, 2}

\* g_sipconfig: the identities of the personality.  alice has a password,
\* bob has none, any other name is unknown (get_user_by_username -> None).
Password(u) == IF u = "alice" THEN "secret" ELSE "None"
Realm(u) == IF u = "alice" THEN "realm-a" ELSE "realm-b"
KnownUsers == {"alice", "bob"}
get_user_by_username(user) == IF user \in KnownUsers THEN user ELSE "None"

Media(kind) == [media |-> kind, port |-> "p4000"]
NoSdp == [none |-> TRUE]
Sdp(medias) == [m |-> medias]
NoAuth == <<>>

\* bytes.lower() on the Content-Type and media names that occur
Lower(s) ==
    CASE s = "Application/SDP" -> "application/sdp"
      [] s = "AUDIO" -> "audio"
      [] OTHER -> s

Msg(method, call_id, cseq, to) ==
    [method |-> method, call_id |-> call_id, cseq |-> cseq, to |-> to,
     ctype |-> "None", sdp |-> NoSdp, auth |-> NoAuth, hdrs |-> TRUE]

Invite(call_id, cseq, to) ==
    [Msg("INVITE", call_id, cseq, to) EXCEPT
        !.ctype = "application/sdp", !.sdp = Sdp(<<Media("audio")>>)]

\* rfc3261 Message.create_response: Call-ID, CSeq (number and method) and To
\* are copied from the request
create_response(msg, code) ==
    [code |-> code, call_id |-> msg.call_id, cseq |-> msg.cseq,
     method |-> msg.method, to |-> msg.to, www |-> <<>>, body |-> "None"]

---------------------------------------------------------------------------
(* The world a callback runs in *)

World ==
    [router |-> router, sessions |-> sessions, calls |-> calls, rtps |-> rtps,
     reg_users |-> reg_users, outbox |-> <<>>, exc |-> "none", effects |-> <<>>]

\* a dict after "= None"
NoneDict == [k \in {"None"} |-> 0]

DictDel(d, k) == [x \in (DOMAIN d) \ {k} |-> d[x]]
DictSet(d, k, v) == [x \in (DOMAIN d) \cup {k} |-> IF x = k THEN v ELSE d[x]]

Raise(w, e) == [w EXCEPT !.exc = e]

\* one statement of SipCall.close took effect on call c
Effect(w, kind, c) == [w EXCEPT !.effects = Append(@, <<kind, c>>)]

---------------------------------------------------------------------------
(* RtpUdpStream *)

RtpUdpStream_init(localAddress, remoteAddress, port) ==
    [local |-> localAddress, remote |-> <<remoteAddress, port>>, con |-> "open"]

RtpUdpStream_close(w, r) == [w EXCEPT !.rtps[r].con = "closed"]

---------------------------------------------------------------------------
(* SipSession.send *)

\* a send that goes out on the server's socket without feeding the bistream
Mut_send_without_bistream(w, s, payload) ==
    [w EXCEPT !.outbox = Append(@, <<w.sessions[s].remote, payload>>)]

SipSession_send(w, s, payload) ==
    [w EXCEPT !.sessions[s].bistream = Append(@, <<"out", payload>>),
              !.outbox = Append(@, <<w.sessions[s].remote, payload>>)]

---------------------------------------------------------------------------
(* SipCall *)

SipCall_init(s, session, msg, rtpPort) ==
    [session |-> s,
     state |-> "SESSION_SETUP",
     remote_address |-> session.remote[1],
     remote_rtp_port |-> rtpPort,
     msg |-> msg,
     call_id |-> msg.call_id,
     rtp_stream |-> 0,
     user |-> get_user_by_username(msg.to),
     timer |-> FALSE,
     con |-> "open"]

SipCall_send(w, c, payload) == SipSession_send(w, w.calls[c].session, payload)

\* SipCall.handle_INVITE: enter INVITE and start the invite_handler timer
SipCall_handle_INVITE(w, c) ==
    [w EXCEPT !.calls[c].state = "INVITE", !.calls[c].timer = TRUE]

\* a timer callback that answers straight from INVITE_TRYING (no 180)
Mut_timer_skips_ringing(w0, c) ==
    LET w == [w0 EXCEPT !.calls[c].timer = FALSE]
        call == w.calls[c]
    IN  CASE call.state = "INVITE" /\ call.user = "None" ->
                [SipSession_send(w, call.session, create_response(call.msg, 404))
                    EXCEPT !.calls[c].state = "NO_SESSION"]
          [] call.state = "INVITE" /\ call.user # "None" ->
                [SipSession_send(w, call.session, create_response(call.msg, 100))
                    EXCEPT !.calls[c].state = "INVITE_TRYING",
                           !.calls[c].timer = TRUE]
          [] call.state = "INVITE_TRYING" ->
                LET w1 == [w EXCEPT
                             !.rtps = Append(@, RtpUdpStream_init(
                                         w.sessions[call.session].local[1],
                                         call.remote_address,
                                         call.remote_rtp_port)),
                             !.calls[c].rtp_stream = Len(w.rtps) + 1]
                    ok == [create_response(call.msg, 200) EXCEPT !.body = "sdp"]
                IN  [SipSession_send(w1, call.session, ok)
                        EXCEPT !.calls[c].state = "CALL"]
          [] OTHER -> w

\* a timer callback that starts the timer again after the 200
Mut_timer_rearmed_after_200(w0, c) ==
    LET w == [w0 EXCEPT !.calls[c].timer = FALSE]
        call == w.calls[c]
    IN  CASE call.state = "INVITE" /\ call.user = "None" ->
                [SipSession_send(w, call.session, create_response(call.msg, 404))
                    EXCEPT !.calls[c].state = "NO_SESSION"]
          [] call.state = "INVITE" /\ call.user # "None" ->
                [SipSession_send(w, call.session, create_response(call.msg, 100))
                    EXCEPT !.calls[c].state = "INVITE_TRYING",
                           !.calls[c].timer = TRUE]
          [] call.state = "INVITE_TRYING" ->
                [SipSession_send(w, call.session, create_response(call.msg, 180))
                    EXCEPT !.calls[c].state = "INVITE_RINGING",
                           !.calls[c].timer = TRUE]
          [] call.state = "INVITE_RINGING" ->
                LET w1 == [w EXCEPT
                             !.rtps = Append(@, RtpUdpStream_init(
                                         w.sessions[call.session].local[1],
                                         call.remote_address,
                                         call.remote_rtp_port)),
                             !.calls[c].rtp_stream = Len(w.rtps) + 1]
                    ok == [create_response(call.msg, 200) EXCEPT !.body = "sdp"]
                IN  [SipSession_send(w1, call.session, ok)
                        EXCEPT !.calls[c].state = "CALL",
                               !.calls[c].timer = TRUE]
          [] OTHER -> w

\* a timer callback without the "self._user == None" branch
Mut_timer_without_user_check(w0, c) ==
    LET w == [w0 EXCEPT !.calls[c].timer = FALSE]
        call == w.calls[c]
    IN  CASE call.state = "INVITE" ->
                [SipSession_send(w, call.session, create_response(call.msg, 100))
                    EXCEPT !.calls[c].state = "INVITE_TRYING",
                           !.calls[c].timer = TRUE]
          [] call.state = "INVITE_TRYING" ->
                [SipSession_send(w, call.session, create_response(call.msg, 180))
                    EXCEPT !.calls[c].state = "INVITE_RINGING",
                           !.calls[c].timer = TRUE]
          [] call.state = "INVITE_RINGING" ->
                LET w1 == [w EXCEPT
                             !.rtps = Append(@, RtpUdpStream_init(
                                         w.sessions[call.session].local[1],
                                         call.remote_address,
                                         call.remote_rtp_port)),
                             !.calls[c].rtp_stream = Len(w.rtps) + 1]
                    ok == [create_response(call.msg, 200) EXCEPT !.body = "sdp"]
                IN  [SipSession_send(w1, call.session, ok)
                        EXCEPT !.calls[c].state = "CALL"]
          [] OTHER -> w

\* SipCall.__handle_invite: the invite_handler timer callback.  The timer is
\* one-shot: it is inactive while its callback runs unless started again.
SipCall_timer_handle_invite(w0, c) ==
    LET w == [w0 EXCEPT !.calls[c].timer = FALSE]
        call == w.calls[c]
    IN  CASE call.state = "INVITE" /\ call.user = "None" ->
                [SipCall_send(w, c, create_response(call.msg, 404))
                    EXCEPT !.calls[c].state = "NO_SESSION"]
          [] call.state = "INVITE" /\ call.user # "None" ->
                [SipCall_send(w, c, create_response(call.msg, 100))
                    EXCEPT !.calls[c].state = "INVITE_TRYING",
                           !.calls[c].timer = TRUE]
          [] call.state = "INVITE_TRYING" ->
                [SipCall_send(w, c, create_response(call.msg, 180))
                    EXCEPT !.calls[c].state = "INVITE_RINGING",
                           !.calls[c].timer = TRUE]
          [] call.state = "INVITE_RINGING" ->
                LET r == Len(w.rtps) + 1
                    w1 == [w EXCEPT
                             !.rtps = Append(@, RtpUdpStream_init(
                                         w.sessions[call.session].local[1],
                                         call.remote_address,
                                         call.remote_rtp_port)),
                             !.calls[c].rtp_stream = r]
                    ok == [create_response(call.msg, 200) EXCEPT !.body = "sdp"]
                IN  [SipCall_send(w1, c, ok) EXCEPT !.calls[c].state = "CALL"]
          [] OTHER -> w

\* a call close that leaves the invite_handler timer running
Mut_call_close_keeps_timer(w0, c) ==
    LET call == w0.calls[c]
        s == call.session
    IN  IF w0.sessions[s].callids = NoneDict
        THEN Raise(w0, "TypeError")
        ELSE
        LET w1 == IF call.call_id \in DOMAIN w0.sessions[s].callids
                  THEN Effect([w0 EXCEPT !.sessions[s].callids =
                                              DictDel(@, call.call_id)],
                              "del_callid", c)
                  ELSE w0
            w2 == IF call.rtp_stream # 0
                  THEN Effect([RtpUdpStream_close(w1, call.rtp_stream)
                                   EXCEPT !.calls[c].rtp_stream = 0],
                              "rtp_close", c)
                  ELSE w1
        IN  Effect([w2 EXCEPT !.calls[c].con = "closed"], "connection_close", c)

\* a call close that drops the relay reference without closing the relay
Mut_call_close_leaks_relay(w0, c) ==
    LET call == w0.calls[c]
        s == call.session
    IN  IF w0.sessions[s].callids = NoneDict
        THEN Raise(w0, "TypeError")
        ELSE
        LET w1 == IF call.call_id \in DOMAIN w0.sessions[s].callids
                  THEN Effect([w0 EXCEPT !.sessions[s].callids =
                                              DictDel(@, call.call_id)],
                              "del_callid", c)
                  ELSE w0
            w3 == IF call.timer
                  THEN Effect([w1 EXCEPT !.calls[c].timer = FALSE], "timer_stop", c)
                  ELSE w1
        IN  Effect([w3 EXCEPT !.calls[c].rtp_stream = 0,
                              !.calls[c].con = "closed"],
                   "connection_close", c)

\* SipCall.close
SipCall_close(w0, c) ==
    LET call == w0.calls[c]
        s == call.session
    IN  IF w0.sessions[s].callids = NoneDict
        THEN Raise(w0, "TypeError")
        ELSE
        LET \* remove Call from Session
            w1 == IF call.call_id \in DOMAIN w0.sessions[s].callids
                  THEN Effect([w0 EXCEPT !.sessions[s].callids =
                                              DictDel(@, call.call_id)],
                              "del_callid", c)
                  ELSE w0
            \* close rtpStream
            w2 == IF call.rtp_stream # 0
                  THEN Effect([RtpUdpStream_close(w1, call.rtp_stream)
                                   EXCEPT !.calls[c].rtp_stream = 0],
                              "rtp_close", c)
                  ELSE w1
            \* stop timers: only a timer that is active or pending
            w3 == IF call.timer
                  THEN Effect([w2 EXCEPT !.calls[c].timer = FALSE], "timer_stop", c)
                  ELSE w2
            \* close connection
        IN  Effect([w3 EXCEPT !.calls[c].con = "closed"], "connection_close", c)

\* SipCall.handle_ACK
SipCall_handle_ACK(w, c, msg_ack) ==
    LET call == w.calls[c]
    IN  IF call.state # "INVITE_CANCEL" THEN w
        ELSE IF call.msg.cseq # msg_ack.cseq THEN w
        ELSE SipCall_close(w, c)

\* a CANCEL handler in the RFC 2543 manner: no 487 for the INVITE
Mut_CANCEL_without_487(w, c, msg_cancel) ==
    LET call == w.calls[c]
    IN  IF ~(call.state \in {"INVITE", "INVITE_TRYING", "INVITE_RINGING"}) THEN w
        ELSE IF call.msg.cseq # msg_cancel.cseq THEN w
        ELSE SipCall_send([w EXCEPT !.calls[c].state = "INVITE_CANCEL",
                                    !.calls[c].timer = FALSE],
                          c, create_response(msg_cancel, 200))

\* a CANCEL handler that does not compare the CSeq sequence numbers
Mut_CANCEL_ignores_cseq(w, c, msg_cancel) ==
    LET call == w.calls[c]
    IN  IF ~(call.state \in {"INVITE", "INVITE_TRYING", "INVITE_RINGING"}) THEN w
        ELSE
        LET w1 == [w EXCEPT !.calls[c].state = "INVITE_CANCEL",
                            !.calls[c].timer = FALSE]
            w2 == SipCall_send(w1, c, create_response(call.msg, 487))
        IN  SipCall_send(w2, c, create_response(msg_cancel, 200))

\* SipCall.handle_CANCEL
SipCall_handle_CANCEL(w, c, msg_cancel) ==
    LET call == w.calls[c]
    IN  IF ~(call.state \in {"INVITE", "INVITE_TRYING", "INVITE_RINGING"}) THEN w
        ELSE IF call.msg.cseq # msg_cancel.cseq THEN w
        ELSE
        LET w1 == [w EXCEPT !.calls[c].state = "INVITE_CANCEL",
                            !.calls[c].timer = FALSE]
            w2 == SipCall_send(w1, c, create_response(call.msg, 487))
        IN  SipCall_send(w2, c, create_response(msg_cancel, 200))

\* a BYE handler that also tears down an answered call
Mut_BYE_closes_answered_call(w, c, msg_bye) ==
    LET call == w.calls[c]
    IN  IF call.state \notin {"INVITE_CANCEL", "CALL"} THEN w
        ELSE SipCall_close(SipCall_send(w, c, create_response(msg_bye, 200)), c)

\* a BYE handler that answers but leaves the call open
Mut_BYE_without_close(w, c, msg_bye) ==
    LET call == w.calls[c]
    IN  IF call.state # "INVITE_CANCEL" THEN w
        ELSE SipCall_send(w, c, create_response(msg_bye, 200))

\* SipCall.handle_BYE
SipCall_handle_BYE(w, c, msg_bye) ==
    LET call == w.calls[c]
    IN  IF call.state # "INVITE_CANCEL" THEN w
        ELSE SipCall_close(SipCall_send(w, c, create_response(msg_bye, 200)), c)

---------------------------------------------------------------------------
(* Digest authentication (dionaea.sip.rfc2617) and the registration directory *)

NonceStr == <<"str", "foobar123">>
NonceBytes == <<"bytes", "foobar123">>
NonceText(nonce) == nonce[2]

AuthList == [kind |-> "list"]
AuthNone == [kind |-> "None"]
Authentication(nonce, realm) ==
    [kind |-> "Authentication", method |-> "digest", algorithm |-> "md5",
     nonce |-> nonce, realm |-> realm]

\* the digest of username/realm/credential/method/nonce, kept symbolic
Digest(username, realm, password, method, nonce_text) ==
    <<username, realm, password, method, nonce_text>>

\* the value of an Authorization header a peer computes with `password`
Authorization(username, realm, password, nonce_text) ==
    [username |-> username, realm |-> realm, nonce |-> nonce_text,
     response |-> Digest(username, realm, password, "REGISTER", nonce_text)]

Authentication_check(auth, username, password, method, auth_response) ==
    auth_response.response =
        Digest(username, auth.realm, password, method, NonceText(auth.nonce))

User(user_id, branch) == [id |-> user_id, branch |-> branch, expires |-> 3600]

RegistrationManager_register(users, user) ==
    LET u0 == IF user.id \in DOMAIN users THEN users
              ELSE DictSet(users, user.id, <<>>)
    IN  [u0 EXCEPT ![user.id] = Append(@, user)]

---------------------------------------------------------------------------
(* SipSession *)

SipSession_init(local, remote, sessionkey) ==
    [sessionkey |-> sessionkey,
     local |-> local,
     remote |-> remote,
     callids |-> [k \in {} |-> 0],
     timers |-> <<FALSE, TRUE>>,          \* idle never started, sustain started
     bistream |-> <<>>,
     auth |-> AuthList,
     con |-> "open"]

\* a traversal that closes one call and skips the others
Mut_CloseCalls_skips_entries(w, s, keys) ==
    IF keys = {} THEN w
    ELSE LET k == CHOOSE x \in keys : TRUE
         IN  SipCall_close(w, w.sessions[s].callids[k])

RECURSIVE CloseCalls(_, _, _)
CloseCalls(w, s, keys) ==
    IF keys = {} \/ w.exc # "none" THEN w
    ELSE LET k == CHOOSE x \in keys : TRUE
         IN  IF k \notin DOMAIN w.sessions[s].callids
             THEN Raise(w, "KeyError")
             ELSE CloseCalls(SipCall_close(w, w.sessions[s].callids[k]), s,
                             keys \ {k})

\* a session close that discards the Call-ID map without closing the calls
Mut_session_close_without_calls(w0, s) ==
    LET key == w0.sessions[s].sessionkey
        w1 == IF key \in DOMAIN w0.router
              THEN [w0 EXCEPT !.router = DictDel(@, key)]
              ELSE w0
    IN  [w1 EXCEPT !.sessions[s].callids = NoneDict,
                   !.sessions[s].timers = <<FALSE, FALSE>>,
                   !.sessions[s].con = "closed"]

\* a session close that leaves the session in the server's map
Mut_session_close_keeps_router_entry(w0, s) ==
    IF w0.sessions[s].callids = NoneDict
    THEN Raise(w0, "TypeError")
    ELSE
    LET w2 == CloseCalls(w0, s, DOMAIN w0.sessions[s].callids)
    IN  IF w2.exc # "none" THEN w2
        ELSE [w2 EXCEPT !.sessions[s].callids = NoneDict,
                        !.sessions[s].timers = <<FALSE, FALSE>>,
                        !.sessions[s].con = "closed"]

\* SipSession.close
SipSession_close(w0, s) ==
    LET key == w0.sessions[s].sessionkey
        w1 == IF key \in DOMAIN w0.router
              THEN [w0 EXCEPT !.router = DictDel(@, key)]
              ELSE w0
    IN  IF w1.sessions[s].callids = NoneDict
        THEN Raise(w1, "TypeError")
        ELSE
        LET w2 == CloseCalls(w1, s, DOMAIN w1.sessions[s].callids)
        IN  IF w2.exc # "none" THEN w2
            ELSE [w2 EXCEPT !.sessions[s].callids = NoneDict,
                            !.sessions[s].timers = <<FALSE, FALSE>>,
                            !.sessions[s].con = "closed"]

\* a sustain timeout that spares a session which still holds calls
Mut_sustain_spares_busy_session(w, s) ==
    IF DOMAIN w.sessions[s].callids # {}
    THEN [w EXCEPT !.sessions[s].timers[2] = FALSE]
    ELSE SipSession_close([w EXCEPT !.sessions[s].timers[2] = FALSE], s)

\* SipSession.__handle_sustain_timeout
SipSession_handle_sustain_timeout(w, s) ==
    SipSession_close([w EXCEPT !.sessions[s].timers[2] = FALSE], s)

\* a handle_unknown that only logs the method
Mut_unknown_without_501(w, s, msg) == w

\* SipSession.handle_unknown
SipSession_handle_unknown(w, s, msg) ==
    SipSession_send(w, s, create_response(msg, 501))

\* SipSession.handle_ACK
SipSession_handle_ACK(w, s, msg) ==
    LET ids == w.sessions[s].callids
    IN  IF ids = NoneDict THEN Raise(w, "TypeError")
        ELSE IF msg.call_id \notin DOMAIN ids THEN w
        ELSE SipCall_handle_ACK(w, ids[msg.call_id], msg)

\* SipSession.handle_BYE
SipSession_handle_BYE(w, s, msg) ==
    LET ids == w.sessions[s].callids
    IN  IF ids = NoneDict THEN Raise(w, "TypeError")
        ELSE IF msg.call_id \notin DOMAIN ids THEN w
        ELSE SipCall_handle_BYE(w, ids[msg.call_id], msg)

\* a CANCEL handler that answers 481 when the Call-ID matches no call
Mut_CANCEL_unknown_callid_answered(w, s, msg) ==
    LET ids == w.sessions[s].callids
    IN  IF ids = NoneDict THEN Raise(w, "TypeError")
        ELSE IF msg.call_id \notin DOMAIN ids
             THEN SipSession_send(w, s, create_response(msg, 481))
        ELSE SipCall_handle_CANCEL(w, ids[msg.call_id], msg)

\* SipSession.handle_CANCEL
SipSession_handle_CANCEL(w, s, msg) ==
    LET ids == w.sessions[s].callids
    IN  IF ids = NoneDict THEN Raise(w, "TypeError")
        ELSE IF msg.call_id \notin DOMAIN ids THEN w
        ELSE SipCall_handle_CANCEL(w, ids[msg.call_id], msg)

\* the first audio media section of an SDP body, <<>> if there is none
AudioOf(medias) ==
    LET idx == {i \in 1..Len(medias) : Lower(medias[i].media) = "audio"}
    IN  IF idx = {} THEN <<>>
        ELSE <<medias[CHOOSE i \in idx : \A j \in idx : i <= j]>>

\* an INVITE handler without the "Call-ID already exists" check
Mut_INVITE_without_callid_check(w, s, msg) ==
    IF msg.ctype = "None" THEN w
    ELSE IF Lower(msg.ctype) # "application/sdp" THEN w
    ELSE IF msg.sdp = NoSdp THEN w
    ELSE IF Len(msg.sdp.m) < 1 THEN w
    ELSE IF AudioOf(msg.sdp.m) = <<>> THEN w
    ELSE IF w.sessions[s].callids = NoneDict THEN Raise(w, "TypeError")
    ELSE
    LET c == Len(w.calls) + 1
        new_call == SipCall_init(s, w.sessions[s], msg, AudioOf(msg.sdp.m)[1].port)
        w1 == [w EXCEPT !.calls = Append(@, new_call),
                        !.sessions[s].callids = DictSet(@, msg.call_id, c)]
    IN  SipCall_handle_INVITE(w1, c)

\* an INVITE handler that takes the first media section, audio or not
Mut_INVITE_without_audio_check(w, s, msg) ==
    IF msg.ctype = "None" THEN w
    ELSE IF Lower(msg.ctype) # "application/sdp" THEN w
    ELSE IF msg.sdp = NoSdp THEN w
    ELSE IF Len(msg.sdp.m) < 1 THEN w
    ELSE IF w.sessions[s].callids = NoneDict THEN Raise(w, "TypeError")
    ELSE IF msg.call_id \in DOMAIN w.sessions[s].callids THEN w
    ELSE
    LET c == Len(w.calls) + 1
        new_call == SipCall_init(s, w.sessions[s], msg, msg.sdp.m[1].port)
        w1 == [w EXCEPT !.calls = Append(@, new_call),
                        !.sessions[s].callids = DictSet(@, msg.call_id, c)]
    IN  SipCall_handle_INVITE(w1, c)

\* SipSession.handle_INVITE
SipSession_handle_INVITE(w, s, msg) ==
    IF msg.ctype = "None" THEN w
    ELSE IF Lower(msg.ctype) # "application/sdp" THEN w
    ELSE IF msg.sdp = NoSdp THEN w
    ELSE IF Len(msg.sdp.m) < 1 THEN w
    ELSE IF AudioOf(msg.sdp.m) = <<>> THEN w
    ELSE IF w.sessions[s].callids = NoneDict THEN Raise(w, "TypeError")
    ELSE IF msg.call_id \in DOMAIN w.sessions[s].callids THEN w
    ELSE
    LET c == Len(w.calls) + 1
        new_call == SipCall_init(s, w.sessions[s], msg, AudioOf(msg.sdp.m)[1].port)
        w1 == [w EXCEPT !.calls = Append(@, new_call),
                        !.sessions[s].callids = DictSet(@, msg.call_id, c)]
    IN  SipCall_handle_INVITE(w1, c)

\* SipSession.handle_OPTIONS
SipSession_handle_OPTIONS(w, s, msg) ==
    SipSession_send(w, s,
        [create_response(msg, 200) EXCEPT !.body = "Allow: INVITE, ACK, CANCEL, OPTIONS, BYE"])

\* a REGISTER handler that sends a challenge without storing it on the session
Mut_REGISTER_challenge_not_stored(w, s, msg) ==
    IF ~msg.hdrs THEN w
    ELSE
    LET u == get_user_by_username(msg.to)
        challenge(nonce) ==
            LET a == Authentication(nonce, Realm(u))
            IN  SipSession_send(w, s, [create_response(msg, 401) EXCEPT !.www = <<a>>])
        accept ==
            LET w1 == [w EXCEPT !.reg_users =
                          RegistrationManager_register(@, User(msg.to, "z9hG4bK"))]
            IN  SipSession_send(w1, s, create_response(msg, 200))
    IN  IF u = "None" THEN Raise(w, "AttributeError")
        ELSE IF Password(u) = "None" THEN accept
        ELSE IF msg.auth = NoAuth \/ w.sessions[s].auth = AuthNone
             THEN challenge(NonceStr)
        ELSE IF w.sessions[s].auth = AuthList THEN Raise(w, "AttributeError")
        ELSE IF ~Authentication_check(w.sessions[s].auth, u, "test", "REGISTER",
                                      msg.auth[1])
             THEN challenge(NonceBytes)
        ELSE accept

\* SipSession.handle_REGISTER
SipSession_handle_REGISTER(w, s, msg) ==
    IF ~msg.hdrs THEN w
    ELSE
    LET u == get_user_by_username(msg.to)
        challenge(nonce) ==
            LET a == Authentication(nonce, Realm(u))
                w1 == [w EXCEPT !.sessions[s].auth = a]
            IN  SipSession_send(w1, s, [create_response(msg, 401) EXCEPT !.www = <<a>>])
        accept ==
            LET w1 == [w EXCEPT !.reg_users =
                          RegistrationManager_register(@, User(msg.to, "z9hG4bK"))]
            IN  SipSession_send(w1, s, create_response(msg, 200))
    IN  IF u = "None" THEN Raise(w, "AttributeError")
        ELSE IF Password(u) = "None" THEN accept
        ELSE IF msg.auth = NoAuth \/ w.sessions[s].auth = AuthNone
             THEN challenge(NonceStr)
        ELSE IF w.sessions[s].auth = AuthList THEN Raise(w, "AttributeError")
        ELSE IF ~Authentication_check(w.sessions[s].auth, u, "test", "REGISTER",
                                      msg.auth[1])
             THEN challenge(NonceBytes)
        ELSE accept

\* str.upper() on the method names that occur
Upper(s) == IF s = "options" THEN "OPTIONS" ELSE s

\* SipSession.handle_io_in
SipSession_handle_io_in(w0, s, data) ==
    LET w == [w0 EXCEPT !.sessions[s].bistream = Append(@, <<"in", data>>)]
        msg == data
        m == Upper(msg.method)
    IN  CASE m = "ACK" -> SipSession_handle_ACK(w, s, msg)
          [] m = "BYE" -> SipSession_handle_BYE(w, s, msg)
          [] m = "CANCEL" -> SipSession_handle_CANCEL(w, s, msg)
          [] m = "INVITE" -> SipSession_handle_INVITE(w, s, msg)
          [] m = "OPTIONS" -> SipSession_handle_OPTIONS(w, s, msg)
          [] m = "REGISTER" -> SipSession_handle_REGISTER(w, s, msg)
          [] OTHER -> SipSession_handle_unknown(w, s, msg)

---------------------------------------------------------------------------
(* SipServer *)

\* a session key that leaves out the remote address and port
Mut_sessionkey_without_remote(local, remote) == <<local[1], local[2], "", "">>

sessionkey(local, remote) == <<local[1], local[2], remote[1], remote[2]>>

\* SipServer.handle_io_in
SipServer_handle_io_in(w, local, remote, data) ==
    LET key == sessionkey(local, remote)
        w1 == IF key \notin DOMAIN w.router
              THEN [w EXCEPT !.sessions = Append(@, SipSession_init(local, remote, key)),
                             !.router = DictSet(@, key, Len(w.sessions) + 1)]
              ELSE w
    IN  SipSession_handle_io_in(w1, w1.router[key], data)

---------------------------------------------------------------------------
(* The reactor: one action per callback *)

Commit(w) ==
    /\ router' = w.router
    /\ sessions' = w.sessions
    /\ calls' = w.calls
    /\ rtps' = w.rtps
    /\ reg_users' = w.reg_users
    /\ outbox' = w.outbox
    /\ exc' = w.exc
    /\ effects' = w.effects

\* datagrams received so far: the "in" entries of all trace logs
InCount(bistream) == Cardinality({i \in 1..Len(bistream) : bistream[i][1] = "in"})

RECURSIVE SumIn(_)
SumIn(n) == IF n = 0 THEN 0 ELSE InCount(sessions[n].bistream) + SumIn(n - 1)

Received == SumIn(Len(sessions))

Init ==
    /\ router = [k \in {} |-> 0]
    /\ sessions = <<>>
    /\ calls = <<>>
    /\ rtps = <<>>
    /\ reg_users = [k \in {} |-> <<>>]
    /\ outbox = <<>>
    /\ exc = "none"
    /\ effects = <<>>

\* a datagram from `peer` arrives on the shared socket
Datagram(peer, data) ==
    /\ Received < MaxDatagrams
    /\ Commit(SipServer_handle_io_in(World, <<peer[1], peer[2]>>,
                                     <<peer[3], peer[4]>>, data))

\* the invite_handler timer of call c fires
InviteTimer(c) ==
    /\ c \in 1..Len(calls)
    /\ calls[c].timer
    /\ Commit(SipCall_timer_handle_invite(World, c))

\* the sustain timer of session s fires
SustainTimer(s) ==
    /\ s \in 1..Len(sessions)
    /\ sessions[s].timers[2]
    /\ Commit(SipSession_handle_sustain_timeout(World, s))

\* The requests a peer sends.  The INVITE carries CSeq 1; "mallory" is no
\* identity of the personality; c2 is the Call-ID of a second, concurrent call.
InviteMsgs ==
    {Invite("c1", 1, "alice"), Invite("c2", 1, "alice"), Invite("c1", 1, "mallory")}
CancelMsgs == {Msg("CANCEL", "c1", 1, "alice"), Msg("CANCEL", "c1", 2, "alice")}
AckMsgs == {Msg("ACK", "c1", 1, "alice"), Msg("ACK", "c1", 2, "alice")}
ByeMsgs == {Msg("BYE", "c1", 2, "alice")}

FireInvite == \E c \in 1..Len(calls) : InviteTimer(c)
FireSustain == \E s \in 1..Len(sessions) : SustainTimer(s)

\* one peer, the call methods
Next ==
    \/ \E d \in InviteMsgs : Datagram(PeerA, d)
    \/ \E d \in CancelMsgs : Datagram(PeerA, d)
    \/ \E d \in AckMsgs : Datagram(PeerA, d)
    \/ \E d \in ByeMsgs : Datagram(PeerA, d)
    \/ FireInvite
    \/ FireSustain

Spec == Init /\ [][Next]_vars

\* two peers, one Call-ID
InviteMsgs2 == {Invite("c1", 1, "alice")}
CancelMsgs2 == {Msg("CANCEL", "c1", 1, "alice")}
ByeMsgs2 == {Msg("BYE", "c1", 2, "alice")}

NextTwo ==
    \/ \E p \in Peers, d \in InviteMsgs2 : Datagram(p, d)
    \/ \E p \in Peers, d \in CancelMsgs2 : Datagram(p, d)
    \/ \E p \in Peers, d \in ByeMsgs2 : Datagram(p, d)
    \/ FireInvite
    \/ FireSustain

SpecTwo == Init /\ [][NextTwo]_vars

\* one peer, REGISTER with and without Authorization, OPTIONS, another method
Register(to, auth) == [Msg("REGISTER", "r1", 1, to) EXCEPT !.auth = auth]
Credentials(to) ==
    {NoAuth} \cup {<<Authorization(to, Realm(to), pw, "foobar123")>> :
                        pw \in {"test", "secret", "wrong"}}
RegisterMsgs ==
    UNION {{Register(to, a) : a \in Credentials(to)} :
                to \in {"alice", "bob", "mallory"}}
        \cup {[Register("alice", NoAuth) EXCEPT !.hdrs = FALSE]}
OtherMsgs == {Msg("OPTIONS", "o1", 1, "alice"), Msg("INFO", "i1", 1, "alice")}

NextReg ==
    \/ \E d \in RegisterMsgs : Datagram(PeerA, d)
    \/ \E d \in OtherMsgs : Datagram(PeerA, d)
    \/ FireSustain

SpecReg == Init /\ [][NextReg]_vars

\* one peer, INVITEs that pass and INVITEs that fail the validation
ValidInvites ==
    {Invite("c1", 1, "alice"),
     [Invite("c2", 1, "alice") EXCEPT
         !.ctype = "Application/SDP",
         !.sdp = Sdp(<<Media("video"), Media("AUDIO")>>)]}
InvalidInvites ==
    {Msg("INVITE", "c1", 1, "alice"),
     [Invite("c1", 1, "alice") EXCEPT !.ctype = "text/plain"],
     [Invite("c1", 1, "alice") EXCEPT !.sdp = NoSdp],
     [Invite("c1", 1, "alice") EXCEPT !.sdp = Sdp(<<>>)],
     [Invite("c1", 1, "alice") EXCEPT !.sdp = Sdp(<<Media("video")>>)]}

NextInv ==
    \/ \E d \in ValidInvites : Datagram(PeerA, d)
    \/ \E d \in InvalidInvites : Datagram(PeerA, d)
    \/ FireInvite
    \/ FireSustain

SpecInv == Init /\ [][NextInv]_vars

\* one peer with a call, a challenge and a registration, and the requests
\* that no call takes: OPTIONS (also in lower case) and a method without handler
MiscMsgs ==
    {Invite("c1", 1, "alice"), Register("alice", NoAuth), Register("bob", NoAuth),
     Msg("OPTIONS", "o1", 1, "alice"), Msg("options", "o1", 2, "alice"),
     Msg("INFO", "c1", 2, "alice")}

NextMisc ==
    \/ \E d \in MiscMsgs : Datagram(PeerA, d)
    \/ FireInvite
    \/ FireSustain

SpecMisc == Init /\ [][NextMisc]_vars

\* one peer, one request of every method, timers fired fairly: libev runs
\* the callback of every timer that stays started
AnyMsgs ==
    {Invite("c1", 1, "alice"), Msg("CANCEL", "c1", 1, "alice"),
     Msg("ACK", "c1", 1, "alice"), Msg("BYE", "c1", 2, "alice"),
     Register("alice", NoAuth), Msg("OPTIONS", "o1", 1, "alice"),
     Msg("INFO", "i1", 1, "alice")}

NextLive ==
    \/ \E d \in AnyMsgs : Datagram(PeerA, d)
    \/ FireInvite
    \/ FireSustain

LiveSpec ==
    /\ Init
    /\ [][NextLive]_vars
    /\ \A s \in 1..MaxDatagrams : WF_vars(SustainTimer(s))
    /\ \A c \in 1..MaxDatagrams : WF_vars(InviteTimer(c))

---------------------------------------------------------------------------
(* Vocabulary of the properties *)

SessionIds == 1..Len(sessions)
CallIdxs == 1..Len(calls)

IsClosed(s) == sessions[s].callids = NoneDict

\* call c is the transaction its session's Call-ID map holds for its Call-ID
InMap(c) ==
    LET ids == sessions[calls[c].session].callids
    IN  /\ ids # NoneDict
        /\ calls[c].call_id \in DOMAIN ids
        /\ ids[calls[c].call_id] = c

\* the entries this step appended to the trace log of session s
NewEntries(s) ==
    SubSeq(sessions'[s].bistream, Len(sessions[s].bistream) + 1,
           Len(sessions'[s].bistream))

\* this step handled a datagram in the (already existing) session s
Arrived(s) == NewEntries(s) # <<>> /\ NewEntries(s)[1][1] = "in"
ArrivedMsg(s) == NewEntries(s)[1][2]

\* session s as the datagram d alone leaves it: logged, nothing else touched
OnlyLogged(s, d) ==
    sessions'[s] = [sessions[s] EXCEPT !.bistream = Append(@, <<"in", d>>)]

\* the call of session s that the request d addresses, 0 if there is none
Addressed(s, d) ==
    LET ids == sessions[s].callids
    IN  IF ids # NoneDict /\ d.call_id \in DOMAIN ids THEN ids[d.call_id] ELSE 0

Out(s, msg, code) == <<"out", create_response(msg, code)>>
Sent(s, msg, code) == <<sessions[s].remote, create_response(msg, code)>>

RECURSIVE SelectSeq2(_, _, _)
\* the status codes of the responses to `method` requests with `call_id` in a log
SelectSeq2(log, call_id, method) ==
    IF log = <<>> THEN <<>>
    ELSE LET e == log[Len(log)]
             rest == SelectSeq2(SubSeq(log, 1, Len(log) - 1), call_id, method)
         IN  IF e[1] = "out" /\ e[2].call_id = call_id /\ e[2].method = method
             THEN Append(rest, e[2].code)
             ELSE rest

RECURSIVE AfterLast(_, _)
\* the part of a sequence of codes after its last occurrence of `code`
AfterLast(codes, code) ==
    IF codes = <<>> THEN <<>>
    ELSE IF codes[Len(codes)] = code THEN <<>>
    ELSE Append(AfterLast(SubSeq(codes, 1, Len(codes) - 1), code), codes[Len(codes)])

\* the responses sent for the INVITE of call c: those to an INVITE with its
\* Call-ID since the previous transaction with that Call-ID was terminated
InviteResponses(c) ==
    AfterLast(SelectSeq2(sessions[calls[c].session].bistream, calls[c].call_id,
                         "INVITE"), 487)

Pending == {"INVITE", "INVITE_TRYING", "INVITE_RINGING"}

---------------------------------------------------------------------------
(* Parts of C1 *)
C1_OnePerCallId ==
    \A c1 \in CallIdxs, c2 \in CallIdxs :
        (/\ c1 # c2
         /\ calls[c1].session = calls[c2].session
         /\ calls[c1].call_id = calls[c2].call_id)
        => ~(calls[c1].con = "open" /\ calls[c2].con = "open")

C1_DuplicateInviteStep ==
    \A s \in SessionIds :
        (/\ Arrived(s)
         /\ ArrivedMsg(s).method = "INVITE"
         /\ Addressed(s, ArrivedMsg(s)) # 0)
        => /\ calls' = calls
           /\ rtps' = rtps
           /\ outbox' = <<>>
           /\ OnlyLogged(s, ArrivedMsg(s))

(* C1: a session holds at most one open Call Transaction per Call-ID, and an
   INVITE whose Call-ID is already in the session's Call-ID map is a no-op:
   no transaction is created, nothing is sent, and the existing transaction
   (state, timer) and the rest of the session are as before. *)
C1_DuplicateInviteIsNoOp == [](C1_OnePerCallId) /\ [][C1_DuplicateInviteStep]_vars

\* a second INVITE for c1 was absorbed while the first call is in TRYING
C1_Witness ==
    \E s \in SessionIds :
        /\ Len(calls) = 1
        /\ calls[1].state = "INVITE_TRYING" /\ calls[1].timer
        /\ sessions[s].bistream =
              <<  <<"in", Invite("c1", 1, "alice")>>,
                  <<"out", create_response(Invite("c1", 1, "alice"), 100)>>,
                  <<"in", Invite("c1", 1, "alice")>>  >>
        /\ outbox = <<>>

---------------------------------------------------------------------------
(* Parts of C2 *)
ChainCode(a, b) ==
    CASE a = "INVITE" /\ b = "INVITE_TRYING" -> 100
      [] a = "INVITE_TRYING" /\ b = "INVITE_RINGING" -> 180
      [] a = "INVITE_RINGING" /\ b = "CALL" -> 200
      [] OTHER -> 0

C2_Step ==
    /\ \A c \in CallIdxs :
          LET s == calls[c].session
              a == calls[c].state
              b == calls'[c].state
              cancelled == /\ Arrived(s)
                           /\ ArrivedMsg(s).method = "CANCEL"
                           /\ ArrivedMsg(s).call_id = calls[c].call_id
          IN  (calls[c].user # "None" /\ ~cancelled) =>
                \/ a = b
                \/ /\ ChainCode(a, b) # 0
                   /\ NewEntries(s) =
                        << <<"out", [create_response(calls[c].msg, ChainCode(a, b))
                                        EXCEPT !.body = IF b = "CALL" THEN "sdp"
                                                        ELSE "None"]>> >>
    /\ \A c \in (1..Len(calls')) \ CallIdxs : calls'[c].state = "INVITE"

C2_Answered ==
    \A c \in CallIdxs :
        calls[c].state = "CALL" => InviteResponses(c) = <<100, 180, 200>>

(* C2: a call to a known identity moves, outside the handling of a CANCEL for
   it, only one step along INVITE -> INVITE_TRYING -> INVITE_RINGING -> CALL,
   each step sending exactly one response to the INVITE (100, 180, 200); a
   new call is in INVITE after the handler that created it; and a call in
   CALL has had exactly the responses 100, 180, 200 sent for its INVITE. *)
C2_StrictAdvance == [](C2_Answered) /\ [][C2_Step]_vars

\* the timer step that answered a call to alice
C2_Witness ==
    \E c \in CallIdxs :
        /\ calls[c].state = "CALL"
        /\ calls[c].user = "alice"
        /\ InviteResponses(c) = <<100, 180, 200>>
        /\ Len(outbox) = 1 /\ outbox[1][2].code = 200

---------------------------------------------------------------------------
(* Parts of C3 *)
C3_Step ==
    \A s \in SessionIds :
        LET d == ArrivedMsg(s)
            c == Addressed(s, d)
        IN  (/\ Arrived(s)
             /\ d.method = "CANCEL"
             /\ c # 0
             /\ calls[c].state \in Pending
             /\ d.cseq = calls[c].msg.cseq)
            => /\ NewEntries(s) =
                    << <<"in", d>>, Out(s, calls[c].msg, 487), Out(s, d, 200) >>
               /\ outbox' = << Sent(s, calls[c].msg, 487), Sent(s, d, 200) >>
               /\ calls' = [calls EXCEPT ![c].state = "INVITE_CANCEL",
                                         ![c].timer = FALSE]

(* C3: a CANCEL whose CSeq number equals the INVITE's, handled while the call
   is in INVITE, INVITE_TRYING or INVITE_RINGING, sends exactly two responses,
   487 built from the INVITE and then 200 built from the CANCEL, stops the
   timer and leaves the call in INVITE_CANCEL. *)
C3_MatchingCancel == [][C3_Step]_vars

\* a ringing call was just cancelled
C3_Witness ==
    \E c \in CallIdxs :
        /\ calls[c].state = "INVITE_CANCEL"
        /\ SelectSeq2(sessions[calls[c].session].bistream, calls[c].call_id,
                      "INVITE") = <<100, 180, 487>>
        /\ Len(outbox) = 2
        /\ outbox[1][2].code = 487 /\ outbox[1][2].method = "INVITE"
        /\ outbox[2][2].code = 200 /\ outbox[2][2].method = "CANCEL"

---------------------------------------------------------------------------
(* Parts of C4 *)
C4_Step ==
    \A s \in SessionIds :
        LET d == ArrivedMsg(s)
            c == Addressed(s, d)
        IN  (/\ Arrived(s)
             /\ d.method = "CANCEL"
             /\ c # 0
             /\ d.cseq # calls[c].msg.cseq)
            => /\ calls' = calls
               /\ rtps' = rtps
               /\ router' = router
               /\ outbox' = <<>>
               /\ OnlyLogged(s, d)

(* C4: a CANCEL whose CSeq number differs from the INVITE's changes no call
   (state, timer), no relay and nothing of the session but the trace log
   entry of the CANCEL itself, and sends nothing, whatever the call's state. *)
C4_MismatchedCancel == [][C4_Step]_vars

\* a CANCEL with CSeq 2 was just ignored by a ringing call whose timer runs
C4_Witness ==
    \E c \in CallIdxs :
        LET log == sessions[calls[c].session].bistream
        IN  /\ calls[c].state = "INVITE_RINGING" /\ calls[c].timer
            /\ InMap(c)
            /\ log # <<>>
            /\ log[Len(log)] = <<"in", Msg("CANCEL", calls[c].call_id, 2, "alice")>>
            /\ calls[c].msg.cseq = 1
            /\ outbox = <<>>

---------------------------------------------------------------------------
(* Parts of C5 *)
ClosedBy(s, c, d) ==
    /\ calls'[c].con = "closed"
    /\ ~calls'[c].timer
    /\ calls'[c].rtp_stream = 0
    /\ \A r \in 1..Len(rtps') : calls[c].rtp_stream = r => rtps'[r].con = "closed"
    /\ d.call_id \notin DOMAIN sessions'[s].callids
    /\ outbox' = IF d.method = "BYE" THEN << Sent(s, d, 200) >> ELSE <<>>

C5_AnyAckOrByeStep ==
    \A s \in SessionIds :
        LET d == ArrivedMsg(s)
            c == Addressed(s, d)
        IN  (/\ Arrived(s)
             /\ d.method \in {"ACK", "BYE"}
             /\ c # 0
             /\ calls[c].state = "INVITE_CANCEL")
            => ClosedBy(s, c, d)

(* C5 as stated: in INVITE_CANCEL any ACK and any BYE for the Call-ID closes
   the call (out of the map, timer stopped, relay closed, connection closed)
   and a BYE is answered with 200. *)
C5_AnyAckOrByeCloses == [][C5_AnyAckOrByeStep]_vars

C5_Step ==
    \A s \in SessionIds :
        LET d == ArrivedMsg(s)
            c == Addressed(s, d)
        IN  (/\ Arrived(s)
             /\ d.method \in {"ACK", "BYE"}
             /\ c # 0
             /\ calls[c].state = "INVITE_CANCEL")
            => IF d.method = "BYE" \/ d.cseq = calls[c].msg.cseq
               THEN ClosedBy(s, c, d)
               ELSE calls' = calls /\ outbox' = <<>> /\ OnlyLogged(s, d)

(* C5 as the code has it: in INVITE_CANCEL any BYE, and an ACK whose CSeq
   number equals the INVITE's, closes the call as above; an ACK with another
   CSeq number is ignored (call, map and timer unchanged, nothing sent). *)
C5_ByeOrMatchingAckCloses == [][C5_Step]_vars

\* a cancelled call was just closed by a BYE, which was answered
C5_Witness ==
    \E c \in CallIdxs :
        /\ calls[c].state = "INVITE_CANCEL"
        /\ calls[c].con = "closed"
        /\ ~InMap(c)
        /\ Len(outbox) = 1
        /\ outbox[1][2].code = 200 /\ outbox[1][2].method = "BYE"

---------------------------------------------------------------------------
(* Parts of C6 *)
RECURSIVE Challenges(_)
\* the nonces of the challenges a trace log records, in order
Challenges(log) ==
    IF log = <<>> THEN <<>>
    ELSE LET e == log[Len(log)]
             rest == Challenges(SubSeq(log, 1, Len(log) - 1))
         IN  IF e[1] = "out" /\ e[2].code = 401
             THEN Append(rest, e[2].www[1].nonce)
             ELSE rest

(* C6: within one session the nonces of any two consecutive digest challenges
   (the 401 responses of its trace log) are distinct. *)
C6_ConsecutiveNoncesDistinct ==
    \A s \in SessionIds :
        LET ch == Challenges(sessions[s].bistream)
        IN  \A i \in 1..(Len(ch) - 1) : ch[i] # ch[i + 1]

---------------------------------------------------------------------------
(* Parts of C7 *)
PeerKey(p) == sessionkey(<<p[1], p[2]>>, <<p[3], p[4]>>)

C7_Inv ==
    /\ \A p \in Peers, q \in Peers :
          (p # q /\ PeerKey(p) \in DOMAIN router /\ PeerKey(q) \in DOMAIN router)
          => router[PeerKey(p)] # router[PeerKey(q)]
    /\ \A p \in Peers :
          PeerKey(p) \in DOMAIN router =>
             /\ sessions[router[PeerKey(p)]].remote = <<p[3], p[4]>>
             /\ sessions[router[PeerKey(p)]].local = <<p[1], p[2]>>
    /\ \A s \in SessionIds :
          ~IsClosed(s) =>
             \A x \in DOMAIN sessions[s].callids :
                calls[sessions[s].callids[x]].session = s

\* session s or one of its calls (or a relay of one) differs after the step
Touched(s) ==
    \/ s \notin SessionIds
    \/ sessions'[s] # sessions[s]
    \/ \E c \in 1..Len(calls') :
          /\ calls'[c].session = s
          /\ \/ c \notin CallIdxs
             \/ calls'[c] # calls[c]
             \/ /\ calls[c].rtp_stream # 0
                /\ rtps'[calls[c].rtp_stream] # rtps[calls[c].rtp_stream]

C7_Step ==
    /\ \A s1 \in 1..Len(sessions'), s2 \in 1..Len(sessions') :
          s1 # s2 => ~(Touched(s1) /\ Touched(s2))
    /\ \A s \in 1..Len(sessions') :
          Touched(s) => \A i \in 1..Len(outbox') : outbox'[i][1] = sessions'[s].remote
    /\ outbox' # <<>> => \E s \in 1..Len(sessions') : Touched(s)

(* C7: the sessions serving two distinct 4-tuples are distinct objects with
   disjoint Call-ID maps (every call of a session's map belongs to that
   session) and their own trace logs, and one callback touches one session:
   whatever a step changes of a session and its calls, every other session,
   the calls of every other session and their relays stay as they were, and
   everything the step sends goes to the remote address of that session. *)
C7_SessionsIsolated == [](C7_Inv) /\ [][C7_Step]_vars

\* both peers have a call with Call-ID c1; A's was just cancelled while B's rings
C7_Witness ==
    /\ PeerA \in DOMAIN router /\ PeerB \in DOMAIN router
    /\ LET a == router[PeerA]
           b == router[PeerB]
       IN  /\ "c1" \in DOMAIN sessions[a].callids
           /\ "c1" \in DOMAIN sessions[b].callids
           /\ calls[sessions[a].callids["c1"]].state = "INVITE_CANCEL"
           /\ calls[sessions[b].callids["c1"]].state = "INVITE_RINGING"
           /\ Len(outbox) = 2 /\ outbox[1][1] = sessions[a].remote

---------------------------------------------------------------------------
(* Parts of C8 *)
C8_Inv ==
    \A s \in SessionIds :
        ~IsClosed(s) <=> (/\ sessions[s].sessionkey \in DOMAIN router
                          /\ router[sessions[s].sessionkey] = s)

C8_Step ==
    /\ \A s \in SessionIds : IsClosed(s) => sessions'[s] = sessions[s]
    /\ \A s \in (1..Len(sessions')) \ SessionIds :
          LET new == sessions'[s]
          IN  /\ new.bistream # <<>>
              /\ new.bistream[1][1] = "in"
              /\ InCount(new.bistream) = 1
              /\ \A i \in 2..Len(new.bistream) :
                    <<new.remote, new.bistream[i][2]>> = outbox'[i - 1]
              /\ \A x \in DOMAIN new.callids : new.callids[x] \notin CallIdxs
              /\ new.timers = <<FALSE, TRUE>>
              /\ new.auth = AuthList
              /\ \A o \in SessionIds :
                    sessions[o].sessionkey = new.sessionkey => IsClosed(o)

(* C8: a session object is in the server's map, under its own key, exactly
   while it is not closed; a closed session stays closed and is never
   changed again; and a session created by a step is fresh: its trace log
   holds the one datagram that created it and what was sent in reply, its
   Call-ID map holds only calls created by that step, its sustain timer is
   armed, and any earlier session of the same 4-tuple is closed. *)
C8_SessionInMapWhileOpen == [](C8_Inv) /\ [][C8_Step]_vars

\* the first session of peer A was closed and a datagram created a second one
C8_Witness ==
    \E s1 \in SessionIds, s2 \in SessionIds :
        /\ s1 < s2
        /\ sessions[s1].sessionkey = PeerA /\ sessions[s2].sessionkey = PeerA
        /\ IsClosed(s1) /\ sessions[s1].con = "closed"
        /\ Len(sessions[s1].bistream) > 1
        /\ router[PeerA] = s2
        /\ InCount(sessions[s2].bistream) = 1
        /\ sessions[s2].timers[2]

---------------------------------------------------------------------------
(* Parts of C9 *)
C9_Inv ==
    \A s \in SessionIds :
        sessions[s].timers = IF IsClosed(s) THEN <<FALSE, FALSE>> ELSE <<FALSE, TRUE>>

C9_Step ==
    /\ \A s \in SessionIds :
          sessions'[s].timers # sessions[s].timers =>
             /\ NewEntries(s) = <<>>
             /\ sessions'[s].callids = NoneDict
             /\ sessions[s].sessionkey \notin DOMAIN router'
             /\ \A c \in CallIdxs :
                   calls[c].session = s =>
                      calls'[c].con = "closed" /\ ~calls'[c].timer
    /\ \A s \in (1..Len(sessions')) \ SessionIds : sessions'[s].timers[2]

(* C9: the sustain timer of a session is armed from its creation until the
   session is closed and no callback but its own changes it; when a
   session's timers change, the session is closed and out of the server's
   map with none of its calls left open; and, timers firing fairly, every
   session is eventually closed. *)
C9_SustainClosesEverySession ==
    /\ [](C9_Inv)
    /\ [][C9_Step]_vars
    /\ \A s \in 1..MaxDatagrams :
          (s <= Len(sessions)) ~> (s <= Len(sessions) /\ IsClosed(s))

\* a session that took three requests and holds an answered call was closed
C9_Witness ==
    \E s \in SessionIds, c \in CallIdxs :
        /\ IsClosed(s)
        /\ InCount(sessions[s].bistream) = MaxDatagrams
        /\ calls[c].session = s
        /\ calls[c].state = "CALL"
        /\ calls[c].con = "closed"

---------------------------------------------------------------------------
(* Parts of C10 *)
Owners(r) == {c \in CallIdxs : calls[c].rtp_stream = r}

C10_Inv ==
    /\ \A c \in CallIdxs :
          calls[c].rtp_stream # 0 =>
             /\ calls[c].state = "CALL"
             /\ InMap(c)
             /\ calls[c].rtp_stream \in 1..Len(rtps)
             /\ rtps[calls[c].rtp_stream].con = "open"
    /\ \A r \in 1..Len(rtps) :
          /\ Cardinality(Owners(r)) <= 1
          /\ rtps[r].con = "open" => Cardinality(Owners(r)) = 1

C10_Step ==
    LET answers == {i \in 1..Len(outbox') :
                       outbox'[i][2].code = 200 /\ outbox'[i][2].method = "INVITE"}
    IN  /\ Len(rtps') = Len(rtps) + Cardinality(answers)
        /\ Cardinality(answers) <= 1
        /\ \A r \in (1..Len(rtps')) \ (1..Len(rtps)) :
              \E c \in CallIdxs :
                 /\ calls[c].state = "INVITE_RINGING"
                 /\ calls'[c].state = "CALL"
                 /\ calls'[c].rtp_stream = r
                 /\ rtps'[r].remote = <<calls[c].remote_address, calls[c].remote_rtp_port>>

(* C10: a call owns a relay only while it is in CALL and in its session's
   map, and then the relay is open; every open relay is owned by exactly
   one call; and a relay is created exactly by the step that sends the 200
   to the INVITE. *)
C10_RelayOnlyWhileAnswered == [](C10_Inv) /\ [][C10_Step]_vars

\* an answered call owns an open relay, and a relay of a closed call is closed
C10_Witness ==
    \E c \in CallIdxs :
        /\ calls[c].state = "CALL" /\ calls[c].rtp_stream # 0
        /\ rtps[calls[c].rtp_stream].con = "open"
        /\ InMap(c)
        /\ \E r \in 1..Len(rtps) : rtps[r].con = "closed"

---------------------------------------------------------------------------
(* C11: when a callback closes a call that owns a relay, the relay is closed
   strictly before the call's timer is stopped and strictly before the call
   is removed from its session's Call-ID map: in the effects of SipCall.close
   no removal from the map and no timer stop of a call precedes the closing
   of that call's relay. *)
C11_RelayClosedFirst ==
    \A i \in 1..Len(effects) :
        effects[i][1] = "rtp_close" =>
            \A j \in 1..(i - 1) :
                ~(/\ effects[j][2] = effects[i][2]
                  /\ effects[j][1] \in {"del_callid", "timer_stop"})

---------------------------------------------------------------------------
(* Parts of C12 *)
\* the trace log of session s before the step (empty if the step creates s)
OldLog(s) == IF s \in SessionIds THEN sessions[s].bistream ELSE <<>>

\* what the step appended to the trace log of session s
Appended(s) ==
    SubSeq(sessions'[s].bistream, Len(OldLog(s)) + 1, Len(sessions'[s].bistream))

\* the outbound payloads among trace log entries, in order
RECURSIVE OutPayloads(_)
OutPayloads(log) ==
    IF log = <<>> THEN <<>>
    ELSE LET rest == OutPayloads(SubSeq(log, 1, Len(log) - 1))
             e == log[Len(log)]
         IN  IF e[1] = "out" THEN Append(rest, e[2]) ELSE rest

C12_Step ==
    /\ Len(sessions') >= Len(sessions)
    \* entries are never removed, reordered or altered
    /\ \A s \in SessionIds :
          /\ Len(sessions'[s].bistream) >= Len(sessions[s].bistream)
          /\ SubSeq(sessions'[s].bistream, 1, Len(sessions[s].bistream))
                = sessions[s].bistream
    \* a datagram is logged first, in the session of its 4-tuple, whatever
    \* the handler then does with it
    /\ \A p \in Peers, d \in AnyMsgs :
          Datagram(p, d) =>
             /\ PeerKey(p) \in DOMAIN router'
             /\ Appended(router'[PeerKey(p)]) # <<>>
             /\ Appended(router'[PeerKey(p)])[1] = <<"in", d>>
    \* an "in" entry is a datagram of this step, and there is at most one
    /\ \A s \in 1..Len(sessions') :
          \A i \in 1..Len(Appended(s)) :
             Appended(s)[i][1] = "in" =>
                /\ i = 1
                /\ \E p \in Peers : Datagram(p, Appended(s)[i][2])
    \* what was sent is what was logged as "out", in the same order
    /\ \/ /\ outbox' = <<>>
          /\ \A s \in 1..Len(sessions') : OutPayloads(Appended(s)) = <<>>
       \/ \E s \in 1..Len(sessions') :
             /\ Len(OutPayloads(Appended(s))) = Len(outbox')
             /\ \A i \in 1..Len(outbox') :
                   outbox'[i] = <<sessions'[s].remote, OutPayloads(Appended(s))[i]>>
             /\ \A o \in (1..Len(sessions')) \ {s} : Appended(o) = <<>>

(* C12: the trace log of a session is the sequence of its wire events in
   processing order: a step never removes, reorders or alters an entry; a
   datagram is appended as ("in", payload) to the session of its 4-tuple
   before anything the handler does, also when the handler then drops it;
   every message a step sends is appended as ("out", payload) to the sending
   session's log in the order sent, and nothing else is appended. *)
C12_TraceLogIsWireHistory == [][C12_Step]_vars

\* a log with a dropped request (an ACK no call takes) between answered ones
C12_Witness ==
    \E s \in SessionIds :
        LET log == sessions[s].bistream
        IN  /\ Len(log) = 5
            /\ log[1] = <<"in", Msg("OPTIONS", "o1", 1, "alice")>>
            /\ log[2][1] = "out" /\ log[2][2].code = 200
            /\ log[3] = <<"in", Msg("ACK", "c1", 1, "alice")>>
            /\ log[4] = <<"in", Msg("INFO", "i1", 1, "alice")>>
            /\ log[5][1] = "out" /\ log[5][2].code = 501
            /\ outbox = << <<sessions[s].remote, log[5][2]>> >>

---------------------------------------------------------------------------
(* Parts of C13 *)
\* the session of peer p holds a challenge before the step
HoldsChallenge(p) ==
    /\ PeerKey(p) \in DOMAIN router
    /\ sessions[router[PeerKey(p)]].auth.kind = "Authentication"

\* the step answered request d in session s with one 401 whose challenge is
\* the one now stored on the session
Challenged(s, d) ==
    /\ sessions'[s].auth.kind = "Authentication"
    /\ outbox' = << <<sessions'[s].remote,
                      [create_response(d, 401) EXCEPT !.www = <<sessions'[s].auth>>]>> >>

C13_Step ==
    \A p \in Peers, d \in RegisterMsgs :
        (/\ Datagram(p, d)
         /\ d.hdrs
         /\ d.auth # NoAuth
         /\ Password(get_user_by_username(d.to)) # "None"
         /\ ~HoldsChallenge(p))
        => /\ exc' = "none"
           /\ PeerKey(p) \in DOMAIN router'
           /\ Challenged(router'[PeerKey(p)], d)
           /\ reg_users' = reg_users

(* C13: a REGISTER with an Authorization header for an identity that has a
   password, handled while the session holds no challenge (a fresh session
   included), is answered with one 401 whose challenge is stored on the
   session, raises nothing and leaves the registration directory as it was. *)
C13_AuthorizationWithoutChallenge == [][C13_Step]_vars

---------------------------------------------------------------------------
(* Parts of C14 *)
\* the step registered identity `to` and answered request d with 200
Registered(s, d) ==
    /\ Len(outbox') = 1
    /\ outbox'[1] = <<sessions'[s].remote, create_response(d, 200)>>
    /\ d.to \in DOMAIN reg_users'
    /\ Len(reg_users'[d.to]) =
          (IF d.to \in DOMAIN reg_users THEN Len(reg_users[d.to]) ELSE 0) + 1
    /\ reg_users'[d.to][Len(reg_users'[d.to])].id = d.to

\* the step answered with one 401 and registered nobody
Refused(s, d) ==
    /\ Len(outbox') = 1
    /\ outbox'[1][2].code = 401
    /\ reg_users' = reg_users

C14_Step ==
    \A p \in Peers, d \in RegisterMsgs :
        LET u == get_user_by_username(d.to)
            s == router[PeerKey(p)]
        IN  (/\ Datagram(p, d)
             /\ d.hdrs
             /\ d.auth # NoAuth
             /\ Password(u) # "None"
             /\ HoldsChallenge(p))
            => IF Authentication_check(sessions[s].auth, u, Password(u),
                                       "REGISTER", d.auth[1])
               THEN Registered(s, d)
               ELSE Refused(s, d)

(* C14: a REGISTER with an Authorization header for an identity that has a
   password, handled while the session holds a challenge, is answered 200
   with a User record appended to the registration directory exactly if the
   digest verifies against the stored challenge and the identity's
   configured password; otherwise it is answered 401 and the directory is
   unchanged. *)
C14_RegisteredIffDigestVerifies == [][C14_Step]_vars

---------------------------------------------------------------------------
(* Parts of C15 *)
C15_Step ==
    \A p \in Peers, d \in RegisterMsgs :
        LET u == get_user_by_username(d.to)
        IN  (/\ Datagram(p, d)
             /\ d.hdrs
             /\ d.auth = NoAuth
             /\ Password(u) # "None")
            => /\ exc' = "none"
               /\ PeerKey(p) \in DOMAIN router'
               /\ Challenged(router'[PeerKey(p)], d)
               /\ sessions'[router'[PeerKey(p)]].auth.realm = Realm(u)
               /\ reg_users' = reg_users

(* C15: a REGISTER without an Authorization header for an identity that has
   a password is answered with exactly one response, a 401 whose challenge
   carries the identity's realm; that challenge is the one the session
   stores afterwards, whatever it stored before, and the registration
   directory is unchanged. *)
C15_RegisterWithoutAuthorization == [][C15_Step]_vars

\* the third challenge of a session: a REGISTER without Authorization just
\* replaced the challenge that a failed verification had stored
C15_Witness ==
    \E s \in SessionIds :
        LET log == sessions[s].bistream
        IN  /\ Challenges(log) = <<NonceStr, NonceBytes, NonceStr>>
            /\ log[Len(log) - 1] = <<"in", Register("alice", NoAuth)>>
            /\ sessions[s].auth = Authentication(NonceStr, Realm("alice"))
            /\ Len(outbox) = 1 /\ outbox[1][2].code = 401
            /\ outbox[1][2].www = <<sessions[s].auth>>
            /\ reg_users = [k \in {} |-> <<>>]

---------------------------------------------------------------------------
(* Parts of C16 *)
\* call c was made to a name that is no identity of the personality
Unknown(c) == calls[c].user = "None"

C16_Inv ==
    /\ \A c \in CallIdxs :
          Unknown(c) =>
             /\ calls[c].state \in {"INVITE", "NO_SESSION", "INVITE_CANCEL"}
             /\ calls[c].rtp_stream = 0
             /\ calls[c].state = "INVITE" =>
                   /\ InviteResponses(c) = <<>>
                   /\ calls[c].timer <=> calls[c].con = "open"
             /\ calls[c].state = "NO_SESSION" =>
                   /\ InviteResponses(c) = <<404>>
                   /\ ~calls[c].timer
    \* no 100, 180 or 200 is ever sent for an INVITE to an unknown name
    /\ \A s \in SessionIds :
          \A i \in 1..Len(sessions[s].bistream) :
             LET e == sessions[s].bistream[i]
             IN  (/\ e[1] = "out"
                  /\ e[2].method = "INVITE"
                  /\ get_user_by_username(e[2].to) = "None")
                 => e[2].code \in {404, 487}

C16_Step ==
    \A c \in CallIdxs :
        (InviteTimer(c) /\ Unknown(c)) =>
            /\ calls[c].state = "INVITE"
            /\ calls' = [calls EXCEPT ![c].state = "NO_SESSION", ![c].timer = FALSE]
            /\ outbox' = << Sent(calls[c].session, calls[c].msg, 404) >>
            /\ NewEntries(calls[c].session) = << Out(calls[c].session, calls[c].msg, 404) >>
            /\ rtps' = rtps

(* C16: a call whose INVITE names an unknown identity is only ever in INVITE,
   NO_SESSION or (after a matching CANCEL) INVITE_CANCEL and never owns a
   relay; its timer fires only in INVITE, and that step sends exactly one
   response, the 404 to the INVITE, enters NO_SESSION and does not start the
   timer again; in NO_SESSION the responses to its INVITE are exactly that
   404; and no 100, 180 or 200 is ever sent for an INVITE to an unknown
   name. *)
C16_UnknownIdentity == [](C16_Inv) /\ [][C16_Step]_vars

\* the 404 was sent, and a later CANCEL and a repeated INVITE changed nothing
C16_Witness ==
    \E c \in CallIdxs :
        LET log == sessions[calls[c].session].bistream
        IN  /\ Unknown(c)
            /\ calls[c].state = "NO_SESSION"
            /\ ~calls[c].timer
            /\ InMap(c)
            /\ Len(log) = 4
            /\ log[2] = Out(calls[c].session, calls[c].msg, 404)
            /\ log[3] = <<"in", Msg("CANCEL", "c1", 1, "alice")>>
            /\ log[4] = <<"in", Invite("c1", 1, "mallory")>>

---------------------------------------------------------------------------
(* Parts of C17 *)
\* the INVITE d fails the validation, as the claim lists the failures
FailsValidation(d) ==
    \/ d.ctype = "None"
    \/ Lower(d.ctype) # "application/sdp"
    \/ d.sdp = NoSdp
    \/ d.sdp.m = <<>>
    \/ \A i \in 1..Len(d.sdp.m) : Lower(d.sdp.m[i].media) # "audio"

C17_Step ==
    \A p \in Peers, d \in ValidInvites \cup InvalidInvites :
        (Datagram(p, d) /\ FailsValidation(d)) =>
            LET s == router'[PeerKey(p)]
            IN  /\ exc' = "none"
                /\ outbox' = <<>>
                /\ calls' = calls
                /\ rtps' = rtps
                /\ Appended(s) = << <<"in", d>> >>
                /\ sessions'[s].callids =
                      (IF s \in SessionIds THEN sessions[s].callids
                       ELSE [k \in {} |-> 0])

(* C17: an INVITE without a Content-Type header, with a Content-Type other
   than application/sdp, without a parsed SDP body, without a media section
   or without an audio media section is only logged: nothing is sent, no
   call is created, no call or relay changes and the session's Call-ID map
   is as before (empty for a session the datagram created). *)
C17_InvalidInviteIsSilent == [][C17_Step]_vars

\* an INVITE offering only video was dropped while a call is being set up
C17_Witness ==
    \E s \in SessionIds :
        LET log == sessions[s].bistream
        IN  /\ Len(calls) = 1
            /\ calls[1].state = "INVITE_TRYING"
            /\ DOMAIN sessions[s].callids = {"c2"}
            /\ log[Len(log)] =
                  <<"in", [Invite("c1", 1, "alice") EXCEPT
                              !.sdp = Sdp(<<Media("video")>>)]>>
            /\ outbox = <<>>

---------------------------------------------------------------------------
(* Parts of C18 *)
HandledMethods == {"REGISTER", "INVITE", "ACK", "CANCEL", "BYE", "OPTIONS"}

\* the step did nothing but log d in session s and send `response` for it
OnlyAnswered(s, d, response) ==
    /\ exc' = "none"
    /\ outbox' = << <<sessions'[s].remote, response>> >>
    /\ Appended(s) = << <<"in", d>>, <<"out", response>> >>
    /\ calls' = calls
    /\ rtps' = rtps
    /\ reg_users' = reg_users
    /\ sessions'[s].auth = (IF s \in SessionIds THEN sessions[s].auth ELSE AuthList)
    /\ sessions'[s].callids =
          (IF s \in SessionIds THEN sessions[s].callids ELSE [k \in {} |-> 0])

C18_Step ==
    \A p \in Peers, d \in MiscMsgs :
        Datagram(p, d) =>
            LET s == router'[PeerKey(p)]
            IN  /\ Upper(d.method) \notin HandledMethods =>
                      OnlyAnswered(s, d, create_response(d, 501))
                /\ Upper(d.method) = "OPTIONS" =>
                      /\ OnlyAnswered(s, d, outbox'[1][2])
                      /\ outbox'[1][2].code = 200
                      /\ outbox'[1][2].call_id = d.call_id
                      /\ outbox'[1][2].cseq = d.cseq
                      /\ outbox'[1][2].body = "Allow: INVITE, ACK, CANCEL, OPTIONS, BYE"

(* C18: a request whose method (compared in upper case) is none of REGISTER,
   INVITE, ACK, CANCEL, BYE, OPTIONS is answered with exactly one response,
   a 501, and an OPTIONS request with exactly one response, a 200 listing
   INVITE, ACK, CANCEL, OPTIONS, BYE; either step only logs the request and
   the response: no call, relay, Call-ID map, stored challenge or
   registration changes. *)
C18_UnknownMethodAndOptions == [][C18_Step]_vars

\* an INFO for the Call-ID of a call in set-up, in a session that holds a
\* challenge, was answered 501
C18_Witness ==
    \E s \in SessionIds :
        /\ "c1" \in DOMAIN sessions[s].callids
        /\ calls[sessions[s].callids["c1"]].state = "INVITE_TRYING"
        /\ sessions[s].auth.kind = "Authentication"
        /\ outbox = << <<sessions[s].remote,
                         create_response(Msg("INFO", "c1", 2, "alice"), 501)>> >>

---------------------------------------------------------------------------
(* Parts of C19 *)
\* the timer of call c has been cancelled: by a CANCEL the call accepted, by
\* closing the call, or by closing its session
TimerCancelled(c) ==
    \/ calls[c].state = "INVITE_CANCEL"
    \/ calls[c].con = "closed"
    \/ IsClosed(calls[c].session)

ChainCodes == {100, 180, 200, 404}

C19_Inv ==
    \A c \in CallIdxs :
        TimerCancelled(c) => ~calls[c].timer /\ calls[c].rtp_stream = 0

C19_Step ==
    \* a call whose timer was cancelled takes no further step of the chain
    /\ \A c \in CallIdxs :
          TimerCancelled(c) =>
             /\ ~InviteTimer(c)
             /\ calls'[c].state = calls[c].state
             /\ calls'[c].rtp_stream = 0
    \* a response of the chain, and a new relay, come from a call whose
    \* timer was armed and not cancelled
    /\ \A i \in 1..Len(outbox') :
          (outbox'[i][2].method = "INVITE" /\ outbox'[i][2].code \in ChainCodes) =>
             \E c \in CallIdxs :
                /\ ~TimerCancelled(c)
                /\ calls[c].timer
                /\ InviteTimer(c)
                /\ outbox'[i] = <<sessions[calls[c].session].remote,
                                  [create_response(calls[c].msg, outbox'[i][2].code)
                                      EXCEPT !.body = outbox'[i][2].body]>>
    /\ Len(rtps') > Len(rtps) =>
          \E c \in CallIdxs : ~TimerCancelled(c) /\ calls[c].timer /\ InviteTimer(c)
    \* nothing is sent or logged for a closed session
    /\ \A s \in SessionIds : IsClosed(s) => NewEntries(s) = <<>>

(* C19: a call whose timer was cancelled (it accepted a CANCEL, it was
   closed, or its session was closed) has its timer stopped and no relay,
   its timer callback never runs again, its state stays as it is and it gets
   no relay; every 100, 180, 200 or 404 sent for an INVITE, and every new
   relay, comes from the timer callback of a call whose timer was armed and
   not cancelled; and nothing is appended to the trace log of a closed
   session, that is, nothing is sent on its behalf. *)
C19_CancelledTimerNeverFires == [](C19_Inv) /\ [][C19_Step]_vars

\* the session was closed over one call that had accepted a CANCEL while
\* trying and another that was still waiting for its first timer step
C19_Witness ==
    \E c1 \in CallIdxs, c2 \in CallIdxs :
        /\ calls[c1].session = calls[c2].session
        /\ IsClosed(calls[c1].session)
        /\ calls[c1].state = "INVITE_CANCEL" /\ calls[c1].con = "closed"
        /\ InviteResponses(c1) = <<>>
        /\ SelectSeq2(sessions[calls[c1].session].bistream, calls[c1].call_id,
                      "INVITE") = <<100, 487>>
        /\ calls[c2].state = "INVITE" /\ calls[c2].con = "closed"
        /\ ~calls[c1].timer /\ ~calls[c2].timer

---------------------------------------------------------------------------
(* Parts of C20 *)
\* the calls session s holds in its Call-ID map
CallsOf(s) ==
    IF IsClosed(s) THEN {}
    ELSE {sessions[s].callids[k] : k \in DOMAIN sessions[s].callids}

C20_Inv ==
    \A s \in SessionIds :
        IsClosed(s) =>
            /\ sessions[s].timers = <<FALSE, FALSE>>
            /\ sessions[s].con = "closed"
            /\ ~(/\ sessions[s].sessionkey \in DOMAIN router
                  /\ router[sessions[s].sessionkey] = s)
            /\ \A c \in CallIdxs :
                  calls[c].session = s =>
                     /\ calls[c].con = "closed"
                     /\ ~calls[c].timer
                     /\ calls[c].rtp_stream = 0

C20_Step ==
    \A s \in SessionIds :
        SustainTimer(s) =>
            /\ exc' = "none"
            /\ sessions'[s].callids = NoneDict
            /\ sessions'[s].timers = <<FALSE, FALSE>>
            /\ sessions[s].sessionkey \notin DOMAIN router'
            /\ \A c \in CallsOf(s) :
                  /\ calls'[c].con = "closed"
                  /\ ~calls'[c].timer
                  /\ calls'[c].rtp_stream = 0
                  /\ calls[c].rtp_stream # 0 =>
                        rtps'[calls[c].rtp_stream].con = "closed"
                  /\ \E i \in 1..Len(effects') : effects'[i] = <<"connection_close", c>>
            /\ \A r \in 1..Len(rtps') :
                  rtps'[r].con = "open" =>
                     \E c \in CallIdxs : calls'[c].rtp_stream = r /\ calls'[c].session # s

(* C20: closing a session (its sustain timeout is the caller) raises nothing
   and closes every call of the session's Call-ID map, skipping none: each
   is closed with its timer stopped and its relay closed; the session's
   Call-ID map is discarded, both session timers are stopped and the session
   is no longer in the server's map; and in every state a closed session has
   no call with a pending timer or a relay. *)
C20_SessionCloseClosesEveryCall == [](C20_Inv) /\ [][C20_Step]_vars

\* a session was closed over two calls: one answered, with its relay, and
\* one still ringing with its timer pending
C20_Witness ==
    \E s \in SessionIds, c1 \in CallIdxs, c2 \in CallIdxs :
        /\ IsClosed(s)
        /\ calls[c1].session = s /\ calls[c2].session = s
        /\ calls[c1].state = "CALL" /\ calls[c2].state = "INVITE_RINGING"
        /\ calls[c1].con = "closed" /\ calls[c2].con = "closed"
        /\ \E r \in 1..Len(rtps) : rtps[r].con = "closed"
        /\ Len(effects) = 6

---------------------------------------------------------------------------
(* Parts of C21 *)
C21_Inv ==
    \A c \in CallIdxs :
        (calls[c].state = "CALL" /\ ~IsClosed(calls[c].session)) =>
            /\ InMap(c)
            /\ calls[c].con = "open"
            /\ calls[c].rtp_stream # 0
            /\ rtps[calls[c].rtp_stream].con = "open"

C21_Step ==
    \* an ACK, BYE or CANCEL for an answered call is only logged
    /\ \A s \in SessionIds :
          LET d == ArrivedMsg(s)
              c == Addressed(s, d)
          IN  (/\ Arrived(s)
               /\ d.method \in {"ACK", "BYE", "CANCEL"}
               /\ c # 0
               /\ calls[c].state = "CALL")
              => /\ calls' = calls
                 /\ rtps' = rtps
                 /\ outbox' = <<>>
                 /\ exc' = "none"
                 /\ OnlyLogged(s, d)
    \* an answered call leaves the map only in the step that closes its session
    /\ \A c \in CallIdxs :
          LET s == calls[c].session
          IN  (/\ calls[c].state = "CALL"
               /\ InMap(c)
               /\ \/ sessions'[s].callids = NoneDict
                  \/ calls[c].call_id \notin DOMAIN sessions'[s].callids)
              => /\ SustainTimer(s)
                 /\ sessions'[s].callids = NoneDict

(* C21: a call in CALL (answered) ignores an ACK, a BYE and a CANCEL for its
   Call-ID: nothing is sent, no call and no relay changes, only the request
   is logged; while its session is open an answered call is in the session's
   Call-ID map with its relay open, and it leaves the map only in the step
   that closes the session. *)
C21_AnsweredIgnoresAckByeCancel == [](C21_Inv) /\ [][C21_Step]_vars

\* an answered call has just ignored a BYE after a CANCEL
C21_Witness ==
    \E c \in CallIdxs :
        LET log == sessions[calls[c].session].bistream
        IN  /\ calls[c].state = "CALL"
            /\ InMap(c)
            /\ rtps[calls[c].rtp_stream].con = "open"
            /\ Len(log) = 6
            /\ log[5] = <<"in", Msg("CANCEL", "c1", 1, "alice")>>
            /\ log[6] = <<"in", Msg("BYE", "c1", 2, "alice")>>
            /\ outbox = <<>>

---------------------------------------------------------------------------
(* Parts of C22 *)
C22_Inv ==
    \A c \in CallIdxs :
        calls[c].timer <=> (calls[c].state \in Pending /\ calls[c].con = "open")

C22_Step ==
    \* the timer is one-shot: its callback leaves it pending only if it moved
    \* the call to INVITE_TRYING or INVITE_RINGING, and starts no other timer
    /\ \A c \in CallIdxs :
          InviteTimer(c) =>
             /\ calls'[c].timer <=> calls'[c].state \in {"INVITE_TRYING", "INVITE_RINGING"}
             /\ \A o \in CallIdxs \ {c} : calls'[o] = calls[o]
    \* a timer becomes pending only for a call created by the step
    /\ \A c \in CallIdxs : (~calls[c].timer /\ calls'[c].timer) => InviteTimer(c)

(* C22: a call has one invite_handler timer, and it is pending exactly while
   the call is open and in INVITE, INVITE_TRYING or INVITE_RINGING: never in
   CALL, INVITE_CANCEL or NO_SESSION and never after the call is closed; the
   timer callback starts the timer again at most once, only when it moved the
   call to INVITE_TRYING or INVITE_RINGING, and no other step starts the
   timer of an existing call. *)
C22_TimerPendingOnlyWhileSetup == [](C22_Inv) /\ [][C22_Step]_vars

\* an answered call without timer beside a ringing call whose timer is pending
C22_Witness ==
    \E c1 \in CallIdxs, c2 \in CallIdxs :
        /\ calls[c1].session = calls[c2].session
        /\ calls[c1].state = "CALL" /\ ~calls[c1].timer /\ calls[c1].con = "open"
        /\ calls[c2].state = "INVITE_RINGING" /\ calls[c2].timer

---------------------------------------------------------------------------
(* Parts of C23 *)
C23_Step ==
    \A p \in Peers, d \in AckMsgs \cup ByeMsgs \cup CancelMsgs :
        Datagram(p, d) =>
            LET s == router'[PeerKey(p)]
                old == IF s \in SessionIds THEN sessions[s].callids
                       ELSE [k \in {} |-> 0]
                c == IF d.call_id \in DOMAIN old THEN old[d.call_id] ELSE 0
            IN  /\ exc' = "none"
                /\ Len(calls') = Len(calls)
                /\ c = 0 =>
                      /\ outbox' = <<>>
                      /\ calls' = calls
                      /\ rtps' = rtps
                      /\ Appended(s) = << <<"in", d>> >>
                      /\ sessions'[s].callids = old
                /\ c # 0 =>
                      /\ \A o \in CallIdxs \ {c} : calls'[o] = calls[o]
                      /\ \A r \in 1..Len(rtps) :
                            r # calls[c].rtp_stream => rtps'[r] = rtps[r]
                      /\ \A k \in (DOMAIN old) \ {d.call_id} :
                            /\ k \in DOMAIN sessions'[s].callids
                            /\ sessions'[s].callids[k] = old[k]

(* C23: an ACK, BYE or CANCEL whose Call-ID is not in the receiving
   session's Call-ID map (a session the datagram creates included) is only
   logged: nothing is sent, no call is created and every call, relay and map
   entry is as before; one whose Call-ID is in the map changes at most the
   call with that Call-ID, its relay and its map entry, and creates no
   call. *)
C23_UnknownCallIdIgnored == [][C23_Step]_vars

\* a CANCEL for c1 was ignored by a session whose only call is a ringing c2
C23_Witness ==
    \E s \in SessionIds :
        LET log == sessions[s].bistream
        IN  /\ DOMAIN sessions[s].callids = {"c2"}
            /\ calls[sessions[s].callids["c2"]].state = "INVITE_RINGING"
            /\ calls[sessions[s].callids["c2"]].timer
            /\ log[Len(log)] = <<"in", Msg("CANCEL", "c1", 1, "alice")>>
            /\ outbox = <<>>

---------------------------------------------------------------------------
(* Parts of C24 *)
C24_Step ==
    \A p \in Peers, d \in RegisterMsgs :
        Datagram(p, d) =>
            LET s == router'[PeerKey(p)]
            IN  \* no exception leaves the handler
                /\ exc' = "none"
                \* answered with one status code, or dropped
                /\ \/ outbox' = <<>>
                   \/ /\ Len(outbox') = 1
                      /\ outbox'[1][1] = sessions'[s].remote
                      /\ outbox'[1][2].code \in {200, 401, 404}
                \* the session stays open and in the server's map
                /\ ~(sessions'[s].callids = NoneDict)
                /\ sessions'[s].con = "open"

(* C24: handling a REGISTER raises nothing, whatever the target identity
   (with password, without password, unknown), with or without an
   Authorization header, with or without a stored challenge: the request is
   answered with one status code or dropped, and the session stays open and
   in the server's map. *)
C24_RegisterNeverFails == [][C24_Step]_vars

---------------------------------------------------------------------------
(* Parts of C25 *)
\* call c exists and is being set up for a known identity
InSetup(c) ==
    /\ c <= Len(calls)
    /\ calls[c].state \in Pending
    /\ calls[c].user # "None"
    /\ calls[c].con = "open"

\* call c was answered: the 200 was sent and its relay is open
Answered(c) ==
    /\ c <= Len(calls)
    /\ calls[c].state = "CALL"
    /\ InviteResponses(c) = <<100, 180, 200>>
    /\ calls[c].rtp_stream # 0
    /\ rtps[calls[c].rtp_stream].con = "open"

\* call c is closed and out of its session's Call-ID map
Gone(c) ==
    /\ c <= Len(calls)
    /\ ~InMap(c)
    /\ calls[c].con = "closed"
    /\ ~calls[c].timer
    /\ calls[c].rtp_stream = 0

(* C25: with every started timer firing eventually, a call being set up for
   a known identity eventually is answered (200 sent, relay open), has
   accepted a CANCEL, or is closed; and every call, whatever its state,
   eventually is closed and out of its session's Call-ID map and stays so
   (no call outlives its session). *)
C25_NoCallWaitsForever ==
    /\ \A c \in 1..MaxDatagrams :
          InSetup(c) ~> (\/ Answered(c)
                         \/ (c <= Len(calls) /\ calls[c].state = "INVITE_CANCEL")
                         \/ Gone(c))
    /\ \A c \in 1..MaxDatagrams :
          (c <= Len(calls)) ~> [](Gone(c))

\* the sustain timer fired first: a call was closed while it was ringing
C25_Witness ==
    \E c \in CallIdxs :
        /\ calls[c].state = "INVITE_RINGING"
        /\ calls[c].user = "alice"
        /\ InviteResponses(c) = <<100, 180>>
        /\ IsClosed(calls[c].session)
        /\ Gone(c)
        /\ rtps = <<>>

===========================================================================
